---- MODULE Spec2Model ----
(***************************************************************************)
(* ELF/MC front panel: the register store (python/elf.py, class Elf) that  *)
(* mirrors the two 8-bit ports of an MCP23017, and the operator control    *)
(* loop with its bootstrap protocols (python/elf_fp.py).                    *)
(***************************************************************************)
EXTENDS Integers, Sequences, FiniteSets, TLC

VARIABLES
    mcp,        \* the MCP23017 registers: iodira, iodirb, gpioa, gpiob
    CARD,       \* the Elf object: _data, _mode, _ef4_n, _stb_n, _mem_protect
    phase,      \* "new" before Elf() has run, "ready" after it, "loop" in run_card
    trace,      \* register operations of the call or protocol in progress
    call,       \* the last input: a call of the store by its client
                \* (SpecStore), or the character getch() returned (panel)
    exc,        \* the exception that ended the program, "none" while it runs
    mode,       \* run_card's local mode: "CONTROL" or "KEYBOARD"
    done,       \* run_card's local done
    todo,       \* what is left of the key action the main loop is executing
    proto,      \* the bootstrap protocol that is running or ran last
    files,      \* the three firmware images as the running protocol finds them
    held,       \* the keys that are physically down, as the hook sees them
    typed,      \* the hex digits typed in a row (SpecHex)
    rmw         \* the main thread and the hook thread inside a setter, each
                \* with the port byte it has read (SpecRace)

vars == <<mcp, CARD, phase, trace, call, exc, mode, done, todo, proto, files,
          held, typed, rmw>>

panelVars == <<mode, done, todo, proto, files, held, typed, rmw>>

----------------------------------------------------------------------------
(* Bit arithmetic on Python's integers, restricted to the non-negative     *)
(* operands the program uses.                                              *)

RECURSIVE BitAnd(_, _)
BitAnd(a, b) ==
    IF a = 0 \/ b = 0 THEN 0
    ELSE (a % 2) * (b % 2) + 2 * BitAnd(a \div 2, b \div 2)

BitOr(a, b) == a + b - BitAnd(a, b)

\* x & ~m : ~m is -m-1, every bit set but those of m, so the bits of m are cleared
BitAndNot(x, m) == x - BitAnd(x, m)

----------------------------------------------------------------------------
(* elf.py constants *)

OUTPUT == 0

WAIT_N == 16
CLEAR_N == 8
MEM_PROTECT == 1
EF4_N == 4
STB_N == 2

MODE == BitOr(CLEAR_N, WAIT_N)

\* class Elf.Mode(Enum): a member is its class and its value
ModeClass == "Elf.Mode"
Member(v) == [cls |-> ModeClass, value |-> v]
LOAD == Member(0)
RESET == Member(16)
PAUSE == Member(8)
RUN == Member(24)
Modes == {LOAD, RESET, PAUSE, RUN}

\* Mode(v): the member whose value is v
ModeOf(v) == CHOOSE m \in Modes : m.value = v

\* isinstance(value, self.Mode)
IsMode(value) == value.cls = ModeClass

\* the object before __init__ has assigned its attributes
NoMode == [cls |-> "unset", value |-> -1]
Unset == [_data |-> -1, _mode |-> NoMode, _ef4_n |-> FALSE,
          _stb_n |-> FALSE, _mem_protect |-> FALSE]

----------------------------------------------------------------------------
(* The store's operations, on a world w = [mcp, card, trace].              *)

World == [mcp |-> mcp, card |-> CARD, trace |-> trace]

\* a write of a port's data register: the register keeps 8 bits
WritePort(w, port, op, arg, byte) ==
    [w EXCEPT !.mcp[port] = byte % 256,
              !.trace = Append(@, [op |-> op, arg |-> arg, port |-> port])]

\* a write of a port's direction register
WriteDir(w, reg, byte) ==
    [w EXCEPT !.mcp[reg] = byte,
              !.trace = Append(@, [op |-> reg, arg |-> byte, port |-> reg])]

B2I(b) == IF b THEN 1 ELSE 0

set_data(w, value) ==
    LET w1 == [w EXCEPT !.card._data = value]
    IN  WritePort(w1, "gpioa", "data", value, w1.card._data)

\* mutant: the mode value written over the whole byte
ModeByte_Overwrite(old, value) == value.value

ModeByte(old, value) == BitOr(BitAndNot(old, MODE), value.value)

\* mutant: no isinstance test
set_mode_Unchecked(w, value) ==
    LET w1 == [w EXCEPT !.card._mode = value]
    IN  WritePort(w1, "gpiob", "mode", value.value,
                  ModeByte(w1.mcp.gpiob, value))

set_mode(w, value) ==
    IF IsMode(value)
    THEN LET w1 == [w EXCEPT !.card._mode = value]
         IN  WritePort(w1, "gpiob", "mode", value.value,
                       ModeByte(w1.mcp.gpiob, value))
    ELSE w

MemProtectByte(old, value) ==
    IF value THEN BitOr(old, MEM_PROTECT) ELSE BitAndNot(old, MEM_PROTECT)

set_mem_protect(w, value) ==
    LET w1 == [w EXCEPT !.card._mem_protect = value]
    IN  WritePort(w1, "gpiob", "mem_protect", B2I(value),
                  MemProtectByte(w1.mcp.gpiob, value))

\* mutant: the masks of "&=" and "|=" without the complement
Ef4Byte_NoComplement(old, value) ==
    IF value THEN BitAnd(old, EF4_N) ELSE BitOr(old, EF4_N)

Ef4Byte(old, value) ==
    IF value THEN BitAndNot(old, EF4_N) ELSE BitOr(old, EF4_N)

set_ef4_n(w, value) ==
    LET w1 == [w EXCEPT !.card._ef4_n = value]
    IN  WritePort(w1, "gpiob", "ef4_n", B2I(value),
                  Ef4Byte(w1.mcp.gpiob, value))

\* mutant: the strobe written active-high
StbByte_ActiveHigh(old, value) ==
    IF value THEN BitOr(old, STB_N) ELSE BitAndNot(old, STB_N)

StbByte(old, value) ==
    IF value THEN BitAndNot(old, STB_N) ELSE BitOr(old, STB_N)

set_stb_n(w, value) ==
    LET w1 == [w EXCEPT !.card._stb_n = value]
    IN  WritePort(w1, "gpiob", "stb_n", B2I(value),
                  StbByte(w1.mcp.gpiob, value))

\* mutant: port A initialised whatever its direction register reads
InitPortA_Always(w) == set_data(WriteDir(w, "iodira", OUTPUT), 0)

\* Elf.__init__, port A half
InitPortA(w) ==
    IF w.mcp.iodira # OUTPUT
    THEN set_data(WriteDir(w, "iodira", OUTPUT), 0)
    ELSE [w EXCEPT !.card._data = w.mcp.gpioa]

\* mutant: ef4_n decoded without the "not"
InitPortB_Ef4High(w) ==
    IF w.mcp.iodirb # OUTPUT
    THEN set_mem_protect(
           set_stb_n(
             set_ef4_n(
               set_mode(WriteDir(w, "iodirb", OUTPUT), RESET),
               FALSE),
             FALSE),
           FALSE)
    ELSE LET state == w.mcp.gpiob
         IN  [w EXCEPT !.card._mode = ModeOf(BitAnd(state, MODE)),
                       !.card._ef4_n = (BitAnd(state, EF4_N) # 0),
                       !.card._stb_n = (BitAnd(state, STB_N) = 0),
                       !.card._mem_protect = (BitAnd(state, MEM_PROTECT) # 0)]

\* Elf.__init__, port B half
InitPortB(w) ==
    IF w.mcp.iodirb # OUTPUT
    THEN set_mem_protect(
           set_stb_n(
             set_ef4_n(
               set_mode(WriteDir(w, "iodirb", OUTPUT), RESET),
               FALSE),
             FALSE),
           FALSE)
    ELSE LET state == w.mcp.gpiob
         IN  [w EXCEPT !.card._mode = ModeOf(BitAnd(state, MODE)),
                       !.card._ef4_n = (BitAnd(state, EF4_N) = 0),
                       !.card._stb_n = (BitAnd(state, STB_N) = 0),
                       !.card._mem_protect = (BitAnd(state, MEM_PROTECT) # 0)]

Elf_init(w) == InitPortB(InitPortA(w))

----------------------------------------------------------------------------
(* Inputs *)

\* direction-register contents found at start-up: all-output, the chip's
\* power-on value, and a mixed setting
DirValues == {0, 255, 15}

Bytes == 0 .. 255

\* port A contents found at start-up, and bytes the store's client writes
DataValues == {0, 5, 81, 128, 192, 255}

\* arguments of the mode setter: the four members, and values that are not
\* members (plain integers, a member of elf_fp.Mode)
ModeArgs == Modes \cup {[cls |-> "int", value |-> 16],
                        [cls |-> "int", value |-> 7],
                        [cls |-> "elf_fp.Mode", value |-> 1]}

NoCall == [op |-> "none", arg |-> 0, pre |-> <<>>]

\* no hex digit typed yet: n digits in a row, and the last two of them
NoneTyped == [n |-> 0, keys |-> <<>>]

\* a thread that is not inside a setter
NoThread == [prog |-> <<>>, pc |-> "idle", cur |-> [op |-> "none", arg |-> 0],
             reg |-> 0]

NoThreads == [main |-> NoThread, hook |-> NoThread]

Init ==
    /\ mcp \in [iodira : DirValues, iodirb : DirValues,
                gpioa : DataValues, gpiob : Bytes]
    /\ CARD = Unset
    /\ phase = "new"
    /\ trace = <<>>
    /\ call = NoCall
    /\ exc = "none"
    /\ mode = "unset"
    /\ done = FALSE
    /\ todo = <<>>
    /\ proto = "none"
    /\ files = <<>>
    /\ held = {}
    /\ typed = NoneTyped
    /\ rmw = NoThreads

Commit(w) ==
    /\ mcp' = w.mcp
    /\ CARD' = w.card
    /\ trace' = w.trace

Fresh == [World EXCEPT !.trace = <<>>]

\* CARD = elf.Elf()
Construct ==
    /\ phase = "new"
    /\ Commit(Elf_init(Fresh))
    /\ phase' = "ready"
    /\ call' = [op |-> "Elf", arg |-> 0, pre |-> <<mcp, CARD>>]
    /\ UNCHANGED <<exc, panelVars>>

----------------------------------------------------------------------------
(* The store driven call by call: any setter with any argument.            *)

StoreCall(op, arg, w) ==
    /\ phase = "ready"
    /\ Commit(w)
    /\ call' = [op |-> op, arg |-> arg, pre |-> <<mcp, CARD>>]
    /\ UNCHANGED <<phase, exc, panelVars>>

CallData == \E b \in DataValues : StoreCall("data", b, set_data(Fresh, b))

CallMode == \E v \in ModeArgs : StoreCall("mode", v, set_mode(Fresh, v))

CallMemProtect ==
    \E b \in BOOLEAN : StoreCall("mem_protect", b, set_mem_protect(Fresh, b))

CallEf4 == \E b \in BOOLEAN : StoreCall("ef4_n", b, set_ef4_n(Fresh, b))

CallStb == \E b \in BOOLEAN : StoreCall("stb_n", b, set_stb_n(Fresh, b))

\* the controller process is started again: elf.Elf() builds a new object
\* on the hardware as the last session left it
Restart ==
    /\ phase = "ready"
    /\ Commit(Elf_init([Fresh EXCEPT !.card = Unset]))
    /\ call' = [op |-> "restart", arg |-> 0, pre |-> <<mcp, CARD>>]
    /\ UNCHANGED <<phase, exc, panelVars>>

NextStore ==
    \/ Construct
    \/ CallData
    \/ CallMode
    \/ CallMemProtect
    \/ CallEf4
    \/ CallStb
    \/ Restart

SpecStore == Init /\ [][NextStore]_vars

----------------------------------------------------------------------------
(* elf_fp.py: the front panel.  Characters are their code points.          *)

Ord == [nul |-> 0, newline |-> 10, space |-> 32, zero |-> 48, nine |-> 57,
        A |-> 65, Z |-> 90, a |-> 97, b |-> 98, c |-> 99, d |-> 100,
        e |-> 101, f |-> 102, g |-> 103, i |-> 105, l |-> 108, m |-> 109,
        p |-> 112, q |-> 113, r |-> 114, w |-> 119, x |-> 120, z |-> 122,
        euro |-> 8364]

\* mutant: no case folding
Lower_Identity(ch) == ch

\* str.lower() on the characters of the input alphabet
Lower(ch) == IF ch \in Ord.A .. Ord.Z THEN ch + 32 ELSE ch

Step(op, arg) == [op |-> op, arg |-> arg]

\* press_input()
press_input ==
    <<Step("ef4_n", 1), Step("sleep", 5), Step("ef4_n", 0)>>

\* mutant: the pulse comes before the byte is put on the data bus
RECURSIVE load_bytes_PulseFirst(_, _)
load_bytes_PulseFirst(file, img) ==
    IF img = <<>> THEN <<>>
    ELSE press_input \o <<Step("data", Head(img))>>
         \o <<Step("read", file)>> \o load_bytes_PulseFirst(file, Tail(img))

\* the loop of load_program over the bytes of an opened image: read(1) and,
\* while a byte came, the byte to data, a pulse, and the next read(1)
RECURSIVE load_bytes(_, _)
load_bytes(file, img) ==
    IF img = <<>> THEN <<>>
    ELSE <<Step("data", Head(img))>> \o press_input
         \o <<Step("read", file)>> \o load_bytes(file, Tail(img))

\* load_program(bin_file) once open() has returned the image
load_program(file, img) == <<Step("read", file)>> \o load_bytes(file, img)

\* mutant: the machine is left running after the third image
load_monitor_NoFinalReset ==
    <<Step("mode", RESET.value), Step("mode", LOAD.value),
      Step("mem_protect", 0),
      Step("open", 1),
      Step("mode", RESET.value), Step("mode", RUN.value),
      Step("data", 128)>> \o press_input \o
    <<Step("data", 0)>> \o press_input \o
    <<Step("open", 2),
      Step("mode", RESET.value), Step("mode", RUN.value),
      Step("data", 132)>> \o press_input \o
    <<Step("data", 0)>> \o press_input \o
    <<Step("open", 3)>>

\* load_monitor(); the files are 1 bootstrap.bin, 2 max_mon.bin, 3 max_bios.bin
load_monitor ==
    <<Step("mode", RESET.value), Step("mode", LOAD.value),
      Step("mem_protect", 0),
      Step("open", 1),
      Step("mode", RESET.value), Step("mode", RUN.value),
      Step("data", 128)>> \o press_input \o
    <<Step("data", 0)>> \o press_input \o
    <<Step("open", 2),
      Step("mode", RESET.value), Step("mode", RUN.value),
      Step("data", 132)>> \o press_input \o
    <<Step("data", 0)>> \o press_input \o
    <<Step("open", 3),
      Step("mode", RESET.value)>>

\* mutant: the last two mode writes swapped
run_monitor_Swapped ==
    <<Step("mode", RESET.value), Step("mode", LOAD.value),
      Step("data", 192)>> \o press_input \o
    <<Step("data", 128)>> \o press_input \o
    <<Step("data", 0)>> \o press_input \o
    <<Step("mode", RUN.value), Step("mode", RESET.value)>>

\* run_monitor()
run_monitor ==
    <<Step("mode", RESET.value), Step("mode", LOAD.value),
      Step("data", 192)>> \o press_input \o
    <<Step("data", 128)>> \o press_input \o
    <<Step("data", 0)>> \o press_input \o
    <<Step("mode", RESET.value), Step("mode", RUN.value)>>

\* mutant: the nibble is or-ed in without the shift
ShiftIn_NoShift(data, nibble) == BitAnd(BitOr(data, nibble), 255)

\* (CARD.data << 4 | nibble) & 0xff
ShiftIn(data, nibble) == BitAnd(BitOr(data * 16, nibble), 255)

\* on_key(key): the operations of the branch the key takes
on_key(key) ==
    CASE key \in {Ord.i, Ord.newline, Ord.space} -> <<Step("ef4_n", 1)>>
      [] key = 48 -> <<Step("shift", 0)>>
      [] key = 49 -> <<Step("shift", 1)>>
      [] key = 50 -> <<Step("shift", 2)>>
      [] key = 51 -> <<Step("shift", 3)>>
      [] key = 52 -> <<Step("shift", 4)>>
      [] key = 53 -> <<Step("shift", 5)>>
      [] key = 54 -> <<Step("shift", 6)>>
      [] key = 55 -> <<Step("shift", 7)>>
      [] key = 56 -> <<Step("shift", 8)>>
      [] key = 57 -> <<Step("shift", 9)>>
      [] key = Ord.a -> <<Step("shift", 10)>>
      [] key = Ord.b -> <<Step("shift", 11)>>
      [] key = Ord.c -> <<Step("shift", 12)>>
      [] key = Ord.d -> <<Step("shift", 13)>>
      [] key = Ord.e -> <<Step("shift", 14)>>
      [] key = Ord.f -> <<Step("shift", 15)>>
      [] key = Ord.l -> <<Step("mode", LOAD.value)>>
      [] key = Ord.r -> <<Step("mode", RESET.value)>>
      [] key = Ord.g -> <<Step("mode", RUN.value)>>
      [] key = Ord.w -> <<Step("mode", PAUSE.value)>>
      [] key = Ord.p -> <<Step("not_mem_protect", 0)>>
      [] key = Ord.z -> load_monitor
      [] key = Ord.m -> run_monitor
      [] OTHER -> <<>>

\* the protocol a key starts
ProtocolOf(key) ==
    CASE key = Ord.z -> "load_monitor"
      [] key = Ord.m -> "run_monitor"
      [] OTHER -> "none"

\* one operation of a key action, on the world
Exec(w, s) ==
    CASE s.op = "mode" -> set_mode(w, ModeOf(s.arg))
      [] s.op = "data" -> set_data(w, s.arg)
      [] s.op = "shift" -> set_data(w, ShiftIn(w.card._data, s.arg))
      [] s.op = "ef4_n" -> set_ef4_n(w, s.arg = 1)
      [] s.op = "stb_n" -> set_stb_n(w, s.arg = 1)
      [] s.op = "mem_protect" -> set_mem_protect(w, s.arg = 1)
      [] s.op = "not_mem_protect" ->
             set_mem_protect(w, ~w.card._mem_protect)
      [] OTHER -> w

RECURSIVE ExecAll(_, _)
ExecAll(w, prog) ==
    IF prog = <<>> THEN w ELSE ExecAll(Exec(w, Head(prog)), Tail(prog))

\* on_release(_key)
on_release(w) == set_stb_n(set_ef4_n(w, FALSE), FALSE)

\* the keys run_card registers on_release for
Registered == {Ord.i, Ord.newline, Ord.space}

\* the keys whose release matters, by what the release has to do:
\* on_release is hooked to the key ("hooked"), or it is not and the key's
\* symbol asserted the strobe ("strobe").  The release of any other key
\* runs nothing, with nothing to deassert, and is not tracked.
KeyClass(key, strobed) ==
    IF key \in Registered THEN {"hooked"}
    ELSE IF strobed THEN {"strobe"}
    ELSE {}

\* mutant: the mode is toggled by every character below the space
IsToggle_Control(char) == char < Ord.space

\* ord(char) == 0
IsToggle(char) == char = 0

\* mutant: KEYBOARD mode asserts the interrupt line instead of the strobe
keyboard_char_Ef4(char) == <<Step("data", char), Step("ef4_n", 1)>>

\* run_card, the KEYBOARD branch: CARD.data = ord(char); CARD.stb_n = True
keyboard_char(char) == <<Step("data", char), Step("stb_n", 1)>>

----------------------------------------------------------------------------
(* Inputs of the panel *)

\* the longest firmware image
MaxImageLen == 3

\* the bytes of the images: byte k of file f
ImageByte(file, k) == 16 * (file + 6) + k

\* the images open() may find for a file: every length up to MaxImageLen
Images(file) ==
    {[k \in 1 .. n |-> ImageByte(file, k)] : n \in 0 .. MaxImageLen}

HexChars == (48 .. 57) \cup (97 .. 102)

\* what getch() may return in the panel specification
Chars == {Ord.nul, Ord.newline, Ord.space, Ord.i, Ord.l, Ord.r, Ord.g, Ord.w,
          Ord.p, Ord.z, Ord.m, Ord.q, Ord.q - 32, Ord.x, 49, Ord.euro}

\* what the hardware holds when the panel starts: never configured, or left
\* configured by an earlier session
InitPanel ==
    /\ mcp \in {[iodira |-> 255, iodirb |-> 255, gpioa |-> 0, gpiob |-> 0],
                [iodira |-> 0, iodirb |-> 0, gpioa |-> 5, gpiob |-> 9],
                [iodira |-> 0, iodirb |-> 255, gpioa |-> 81, gpiob |-> 0]}
    /\ CARD = Unset
    /\ phase = "new"
    /\ trace = <<>>
    /\ call = NoCall
    /\ exc = "none"
    /\ mode = "unset"
    /\ done = FALSE
    /\ todo = <<>>
    /\ proto = "none"
    /\ files = <<>>
    /\ held = {}
    /\ typed = NoneTyped
    /\ rmw = NoThreads

----------------------------------------------------------------------------
(* Actions of the panel *)

\* CARD = elf.Elf() at import
Import ==
    /\ phase = "new"
    /\ Commit(Elf_init(Fresh))
    /\ phase' = "ready"
    /\ UNCHANGED <<call, exc, panelVars>>

\* run_card() up to the loop
StartLoop ==
    /\ phase = "ready"
    /\ phase' = "loop"
    /\ mode' = "CONTROL"
    /\ done' = FALSE
    /\ trace' = <<>>
    /\ UNCHANGED <<mcp, CARD, call, exc, todo, proto, files, held, typed,
                   rmw>>

\* one turn of the loop on the character ch; a bootstrap protocol is left
\* in todo and runs operation by operation
ReadChar(ch) ==
    /\ phase = "loop"
    /\ ~done
    /\ todo = <<>>
    /\ LET char == Lower(ch)
       IN  /\ held' = held \cup
                     KeyClass(char, mode = "KEYBOARD" /\ char # Ord.q
                                    /\ ~IsToggle(char))
           /\ trace' = <<>>
           /\ files' = <<>>
           /\ IF char = Ord.q
              THEN /\ done' = TRUE
                   /\ phase' = "exit"
                   /\ proto' = "none"
                   /\ UNCHANGED <<mcp, CARD, mode, todo>>
              ELSE IF IsToggle(char)
              THEN /\ mode' = IF mode = "CONTROL" THEN "KEYBOARD"
                              ELSE "CONTROL"
                   /\ proto' = "none"
                   /\ UNCHANGED <<mcp, CARD, done, phase, todo>>
              ELSE IF mode = "KEYBOARD"
              THEN /\ LET w == ExecAll(World, keyboard_char(char))
                      IN  mcp' = w.mcp /\ CARD' = w.card
                   /\ proto' = "none"
                   /\ UNCHANGED <<mode, done, phase, todo>>
              ELSE IF ProtocolOf(char) # "none"
              THEN /\ todo' = on_key(char)
                   /\ proto' = ProtocolOf(char)
                   /\ UNCHANGED <<mcp, CARD, mode, done, phase>>
              ELSE /\ LET w == ExecAll(World, on_key(char))
                      IN  mcp' = w.mcp /\ CARD' = w.card
                   /\ proto' = "none"
                   /\ UNCHANGED <<mode, done, phase, todo>>
    /\ call' = [op |-> "getch", arg |-> ch, pre |-> <<>>]
    /\ UNCHANGED <<exc, rmw>>

GetCh == \E ch \in Chars : ReadChar(ch) /\ UNCHANGED typed

\* the next operation of the running protocol
ProtocolStep ==
    /\ phase = "loop"
    /\ todo # <<>>
    /\ Head(todo).op # "open"
    /\ Commit(Exec(World, Head(todo)))
    /\ todo' = Tail(todo)
    /\ UNCHANGED <<phase, call, exc, mode, done, proto, files, held, typed,
                   rmw>>

\* load_program: open() returns an image, whose bytes the loop will load
OpenImage ==
    /\ phase = "loop"
    /\ todo # <<>>
    /\ Head(todo).op = "open"
    /\ \E img \in Images(Head(todo).arg) :
          /\ todo' = load_program(Head(todo).arg, img) \o Tail(todo)
          /\ files' = Append(files, img)
    /\ UNCHANGED <<mcp, CARD, phase, trace, call, exc, mode, done, proto,
                   held, typed, rmw>>

\* mutant: the exception is caught and the protocol goes on with its next
\* operation
ImageError_Swallowed ==
    /\ phase = "loop"
    /\ todo # <<>>
    /\ Head(todo).op \in {"open", "read"}
    /\ exc' = IF Head(todo).op = "open" THEN "FileNotFoundError"
              ELSE "OSError"
    /\ todo' = Tail(todo)
    /\ UNCHANGED <<mcp, CARD, phase, trace, call, mode, done, proto, files,
                   held, typed, rmw>>

\* load_program: open() or read(1) raises, and the exception ends the program
ImageError ==
    /\ phase = "loop"
    /\ todo # <<>>
    /\ Head(todo).op \in {"open", "read"}
    /\ exc' = IF Head(todo).op = "open" THEN "FileNotFoundError"
              ELSE "OSError"
    /\ phase' = "exit"
    /\ UNCHANGED <<mcp, CARD, trace, call, mode, done, todo, proto, files,
                   held, typed, rmw>>

\* a key goes up; the keyboard hook calls on_release for a registered key
KeyRelease(k) ==
    /\ phase = "loop"
    /\ k \in held
    /\ held' = held \ {k}
    /\ IF k = "hooked"
       THEN LET w == on_release(World)
            IN  mcp' = w.mcp /\ CARD' = w.card
       ELSE UNCHANGED <<mcp, CARD>>
    /\ UNCHANGED <<phase, trace, call, exc, mode, done, todo, proto, files,
                   typed, rmw>>

Release == \E k \in {"hooked", "strobe"} : KeyRelease(k)

Next ==
    \/ Import
    \/ StartLoop
    \/ GetCh
    \/ ProtocolStep
    \/ OpenImage
    \/ ImageError
    \/ Release

Spec == InitPanel /\ [][Next]_vars

----------------------------------------------------------------------------
(* The hex keys alone, from every data byte.                                *)

\* how many hex digits are typed in a row
MaxDigits == 10

HexKeys == HexChars \cup (65 .. 70)

InitHex ==
    /\ mcp \in [iodira : {0}, iodirb : {0}, gpioa : Bytes, gpiob : {22}]
    /\ CARD = Unset
    /\ phase = "new"
    /\ trace = <<>>
    /\ call = NoCall
    /\ exc = "none"
    /\ mode = "unset"
    /\ done = FALSE
    /\ todo = <<>>
    /\ proto = "none"
    /\ files = <<>>
    /\ held = {}
    /\ typed = NoneTyped
    /\ rmw = NoThreads

GetHex ==
    /\ typed.n < MaxDigits
    /\ \E ch \in HexKeys :
          /\ ReadChar(ch)
          /\ typed' = [n |-> typed.n + 1,
                       keys |-> IF typed.keys = <<>> THEN <<ch>>
                                ELSE <<typed.keys[Len(typed.keys)], ch>>]

NextHex ==
    \/ Import
    \/ StartLoop
    \/ GetHex

SpecHex == InitHex /\ [][NextHex]_vars

----------------------------------------------------------------------------
(* A key goes up while the main loop is inside a setter.  The keyboard      *)
(* module calls on_release from its own thread and nothing locks the store, *)
(* so the assignment of the field, the read of the port and the write of    *)
(* the port of every setter are steps of their own.                         *)

\* on_release(_key), as the setter calls it makes
on_release_ops == <<Step("ef4_n", 0), Step("stb_n", 0)>>

\* the setter call with its argument evaluated:
\* CARD.mem_protect = not CARD.mem_protect reads the field first
Resolve(s) ==
    IF s.op = "not_mem_protect"
    THEN Step("mem_protect", B2I(~CARD._mem_protect))
    ELSE s

\* the first statement of the setter s: the field takes the value
AssignField(card, s) ==
    CASE s.op = "data" -> [card EXCEPT !._data = s.arg]
      [] s.op = "mode" -> [card EXCEPT !._mode = ModeOf(s.arg)]
      [] s.op = "mem_protect" -> [card EXCEPT !._mem_protect = (s.arg = 1)]
      [] s.op = "ef4_n" -> [card EXCEPT !._ef4_n = (s.arg = 1)]
      [] s.op = "stb_n" -> [card EXCEPT !._stb_n = (s.arg = 1)]

\* the byte the setter s writes to port B, from the byte it has read
NewByte(old, s) ==
    CASE s.op = "mode" -> ModeByte(old, ModeOf(s.arg))
      [] s.op = "mem_protect" -> MemProtectByte(old, s.arg = 1)
      [] s.op = "ef4_n" -> Ef4Byte(old, s.arg = 1)
      [] s.op = "stb_n" -> StbByte(old, s.arg = 1)

\* a thread that starts on the setter calls of prog
Started(prog) ==
    [NoThread EXCEPT !.prog = prog,
                     !.pc = IF prog = <<>> THEN "done" ELSE "assign"]

\* the keys read while a key may go up
RaceKeys == {Ord.l, Ord.g, Ord.p, Ord.i, Ord.x}

\* the keys read before that, with nothing else going on
SetupKeys == {Ord.nul, Ord.i, Ord.space}

\* getch() returns while no setter is in flight, and the turn of the loop
\* runs to its end
RaceSetup ==
    /\ rmw = NoThreads
    /\ \E ch \in SetupKeys : ReadChar(ch)
    /\ UNCHANGED typed

\* getch() returns ch and the main loop starts on the setter calls of the key
MainBegin ==
    /\ phase = "loop"
    /\ ~done
    /\ todo = <<>>
    /\ rmw.main.pc = "idle"
    /\ \E ch \in RaceKeys :
          LET char == Lower(ch)
          IN  /\ rmw' = [rmw EXCEPT !.main =
                            Started(IF mode = "KEYBOARD"
                                    THEN keyboard_char(char)
                                    ELSE on_key(char))]
              /\ held' = held \cup KeyClass(char, mode = "KEYBOARD")
              /\ call' = [op |-> "getch", arg |-> ch, pre |-> <<>>]
    /\ trace' = <<>>
    /\ files' = <<>>
    /\ proto' = "none"
    /\ UNCHANGED <<mcp, CARD, phase, exc, mode, done, todo, typed>>

\* a registered key goes up and the hook thread enters on_release
HookBegin ==
    /\ phase = "loop"
    /\ "hooked" \in held
    /\ rmw.hook.pc = "idle"
    /\ held' = held \ {"hooked"}
    /\ rmw' = [rmw EXCEPT !.hook = Started(on_release_ops)]
    /\ UNCHANGED <<mcp, CARD, phase, trace, call, exc, mode, done, todo,
                   proto, files, typed>>

\* self._field = value
ThreadAssign(t) ==
    /\ rmw[t].pc = "assign"
    /\ LET s == Resolve(Head(rmw[t].prog))
       IN  /\ CARD' = AssignField(CARD, s)
           /\ rmw' = [rmw EXCEPT ![t].cur = s,
                                 ![t].pc = IF s.op = "data" THEN "write"
                                           ELSE "read"]
    /\ UNCHANGED <<mcp, phase, trace, call, exc, mode, done, todo, proto,
                   files, held, typed>>

\* the read of self._mcp.gpiob inside "|=", "&=" and the mode expression
ThreadRead(t) ==
    /\ rmw[t].pc = "read"
    /\ rmw' = [rmw EXCEPT ![t].reg = mcp.gpiob, ![t].pc = "write"]
    /\ UNCHANGED <<mcp, CARD, phase, trace, call, exc, mode, done, todo,
                   proto, files, held, typed>>

\* the write of the port that ends the setter
ThreadWrite(t) ==
    /\ rmw[t].pc = "write"
    /\ LET s == rmw[t].cur
           w == IF s.op = "data"
                THEN WritePort(World, "gpioa", "data", s.arg, CARD._data)
                ELSE WritePort(World, "gpiob", s.op, s.arg,
                               NewByte(rmw[t].reg, s))
       IN  /\ mcp' = w.mcp
           /\ trace' = w.trace
    /\ rmw' = [rmw EXCEPT ![t].prog = Tail(@),
                          ![t].pc = IF Tail(rmw[t].prog) = <<>> THEN "done"
                                    ELSE "assign"]
    /\ UNCHANGED <<CARD, phase, call, exc, mode, done, todo, proto, files,
                   held, typed>>

Threads == {"main", "hook"}

Assign == \E t \in Threads : ThreadAssign(t)

Read == \E t \in Threads : ThreadRead(t)

Write == \E t \in Threads : ThreadWrite(t)

NextRace ==
    \/ Import
    \/ StartLoop
    \/ RaceSetup
    \/ MainBegin
    \/ HookBegin
    \/ Assign
    \/ Read
    \/ Write

SpecRace == InitPanel /\ [][NextRace]_vars

----------------------------------------------------------------------------
(* Helpers of the claims *)

\* bit n of a byte
Bit(byte, n) == (byte \div (2 ^ n)) % 2

----------------------------------------------------------------------------
(* Claims about the hex keys (SpecHex).                                     *)

\* the value of a hex digit character
Nibble(ch) ==
    IF ch \in 48 .. 57 THEN ch - 48
    ELSE IF ch \in 97 .. 102 THEN ch - 87
    ELSE ch - 55

\* a step that types one more hex digit, call'.arg, in CONTROL mode
C7_Shift ==
    (mode = "CONTROL" /\ typed'.n = typed.n + 1) =>
        /\ CARD'._data = (16 * CARD._data + Nibble(call'.arg)) % 256
        /\ mcp'.gpioa = CARD'._data
        /\ (CARD._data = 5 /\ call'.arg = 49) => CARD'._data = 81

C7_LastTwo ==
    typed.n >= 2 =>
        CARD._data = 16 * Nibble(typed.keys[1]) + Nibble(typed.keys[2])

\* C7: in CONTROL mode each hex-digit key sets data to
\* ((data << 4) | nibble) & 0xFF, so that key 1 turns data 0x05 into 0x51;
\* once two or more hex digits have been typed in a row, ten included, data
\* is the byte made of the last two (the earlier one the high nibble).
C7_HexNibble == [][C7_Shift]_vars /\ []C7_LastTwo

C7_Witness ==
    /\ typed.n = 10
    /\ typed.keys = <<Ord.f, 49>>
    /\ CARD._data = 241

----------------------------------------------------------------------------
(* Claims about the panel (Spec).                                           *)

\* the operations of a trace, each as <<field, value>>
Ops(t) == [n \in 1 .. Len(t) |-> <<t[n].op, t[n].arg>>]

IsPrefix(s, t) == Len(s) <= Len(t) /\ s = SubSeq(t, 1, Len(s))

\* the pulses of a trace: where ef4_n is set and cleared by the next operation
Pulses(t) ==
    {n \in 1 .. Len(t) - 1 :
        /\ t[n].op = "ef4_n" /\ t[n].arg = 1
        /\ t[n + 1].op = "ef4_n" /\ t[n + 1].arg = 0}

\* the values written to data, in order
RECURSIVE DataWrites(_)
DataWrites(t) ==
    IF t = <<>> THEN <<>>
    ELSE IF Head(t).op = "data" THEN <<Head(t).arg>> \o DataWrites(Tail(t))
    ELSE DataWrites(Tail(t))

\* a step of the loop that reads a character, call'.arg: the loop is between
\* key actions and no key goes up
GetChStep == phase = "loop" /\ todo = <<>> /\ held \subseteq held'

\* a step in which a key goes up
ReleaseStep == phase = "loop" /\ held' # held /\ held' \subseteq held

RunMonitorOps ==
    << <<"mode", 16>>, <<"mode", 0>>,
       <<"data", 192>>, <<"ef4_n", 1>>, <<"ef4_n", 0>>,
       <<"data", 128>>, <<"ef4_n", 1>>, <<"ef4_n", 0>>,
       <<"data", 0>>, <<"ef4_n", 1>>, <<"ef4_n", 0>>,
       <<"mode", 16>>, <<"mode", 24>> >>

C5_Sequence ==
    /\ proto = "run_monitor" => IsPrefix(Ops(trace), RunMonitorOps)
    /\ (proto = "run_monitor" /\ todo = <<>>) =>
           /\ Ops(trace) = RunMonitorOps
           /\ CARD._mode = RUN
           /\ CARD._data = 0
           /\ ~CARD._ef4_n
           /\ mcp.gpioa = 0
           /\ Bit(mcp.gpiob, 4) = 1 /\ Bit(mcp.gpiob, 3) = 1
           /\ Bit(mcp.gpiob, 2) = 1

C5_Frame ==
    proto' = "run_monitor" =>
        /\ CARD'._mem_protect = CARD._mem_protect
        /\ Bit(mcp'.gpiob, 0) = Bit(mcp.gpiob, 0)

\* C5: from every prior register state run_monitor() performs, in order and
\* with nothing else, mode=RESET, mode=LOAD, data=0xC0 and a pulse,
\* data=0x80 and a pulse, data=0x00 and a pulse, mode=RESET, mode=RUN; it
\* ends with mode RUN, data 0 and ef4_n false, and no step of it changes
\* mem_protect.
C5_RunMonitor == []C5_Sequence /\ [][C5_Frame]_vars

C5_Witness ==
    /\ proto = "run_monitor"
    /\ todo = <<>>
    /\ Len(trace) = 13
    /\ CARD._mem_protect
    /\ CARD._stb_n
    /\ CARD._mode = RUN

\* load_monitor() has run to its end on images of 3, 2 and 1 bytes
LoadedThreeTwoOne ==
    /\ proto = "load_monitor"
    /\ phase = "loop"
    /\ todo = <<>>
    /\ Len(files) = 3
    /\ Len(files[1]) = 3 /\ Len(files[2]) = 2 /\ Len(files[3]) = 1

\* every pulse directly follows a write of data, and every write of data is
\* directly followed by a pulse
BytesStaged ==
    /\ \A n \in Pulses(trace) : n > 1 /\ trace[n - 1].op = "data"
    /\ \A n \in 1 .. Len(trace) :
           trace[n].op = "data" => n + 1 \in Pulses(trace)

\* C6 as stated: load_monitor() on images of 3, 2 and 1 bytes produces
\* exactly 6 pulse operations, each image byte written to data immediately
\* before its pulse.
C6_SixPulses ==
    LoadedThreeTwoOne =>
        /\ Cardinality(Pulses(trace)) = 6
        /\ BytesStaged

\* C6 amended: load_monitor() on images of 3, 2 and 1 bytes produces
\* exactly 10 pulse operations: 6 for the image bytes, each byte written to
\* data immediately before its pulse, and the 4 fixed ones that follow
\* data=0x80, data=0x00, data=0x84 and data=0x00.
C6_TenPulses ==
    LoadedThreeTwoOne =>
        /\ Cardinality(Pulses(trace)) = 10
        /\ BytesStaged
        /\ DataWrites(trace) =
               files[1] \o <<128, 0>> \o files[2] \o <<132, 0>> \o files[3]
        /\ Cardinality({n \in Pulses(trace) :
                           trace[n - 1].arg \in
                               {files[f][k] : f \in 1 .. 3, k \in 1 .. 1}
                               \cup {files[f][k] : f \in 1 .. 2, k \in 2 .. 2}
                               \cup {files[1][3]}}) = 6

C6_Witness == LoadedThreeTwoOne /\ CARD._mode = RESET /\ CARD._data = 145

\* the step in which open() or read(1) fails
C12_Abort ==
    (exc = "none" /\ exc' # "none") =>
        /\ proto = "load_monitor"
        /\ todo # <<>>
        /\ phase' = "exit"
        /\ ~done'
        /\ mcp' = mcp /\ CARD' = CARD /\ trace' = trace
        /\ todo' = todo

\* once the session has ended nothing runs: no operation of the protocol,
\* no character read, no release handled
C12_Ended == phase = "exit" => UNCHANGED vars

\* C12: when a firmware image cannot be opened or read partway through
\* load_monitor(), the error ends the protocol and the session at that
\* point: no later operation of the protocol runs, and the registers and the
\* fields stay as the writes made before the failure left them.
C12_FatalImageError ==
    /\ [][C12_Abort /\ C12_Ended]_vars
    /\ [](exc # "none" => (phase = "exit" /\ todo # <<>>))

C12_Witness ==
    /\ exc = "OSError"
    /\ phase = "exit"
    /\ Len(files) = 2
    /\ Len(files[1]) = 3
    /\ Len(trace) = 23
    /\ CARD._mode = RUN
    /\ CARD._data = ImageByte(2, 1)
    /\ mcp.gpioa = ImageByte(2, 1)

Pulse == << <<"ef4_n", 1>>, <<"ef4_n", 0>> >>

\* the operations that load an image: each byte to data, then a pulse
RECURSIVE ByteOps(_)
ByteOps(img) ==
    IF img = <<>> THEN <<>>
    ELSE << <<"data", Head(img)>> >> \o Pulse \o ByteOps(Tail(img))

\* the images found so far, and empty ones for those not opened yet
Found(f) == IF f <= Len(files) THEN files[f] ELSE <<>>

LoadMonitorOps ==
    << <<"mode", 16>>, <<"mode", 0>>, <<"mem_protect", 0>> >>
    \o ByteOps(Found(1))
    \o << <<"mode", 16>>, <<"mode", 24>>, <<"data", 128>> >> \o Pulse
    \o << <<"data", 0>> >> \o Pulse
    \o ByteOps(Found(2))
    \o << <<"mode", 16>>, <<"mode", 24>>, <<"data", 132>> >> \o Pulse
    \o << <<"data", 0>> >> \o Pulse
    \o ByteOps(Found(3))
    \o << <<"mode", 16>> >>

\* C13: for any three images load_monitor() performs, in this order and
\* with nothing else: mode=RESET, mode=LOAD, mem_protect=false; data=byte
\* and a pulse for each byte of the first image; mode=RESET, mode=RUN,
\* data=0x80, pulse, data=0x00, pulse; the bytes of the second image
\* likewise; mode=RESET, mode=RUN, data=0x84, pulse, data=0x00, pulse; the
\* bytes of the third image likewise; mode=RESET.  It ends with mode RESET,
\* mem_protect false and ef4_n false.
C13_LoadMonitorOrder ==
    /\ proto = "load_monitor" => IsPrefix(Ops(trace), LoadMonitorOps)
    /\ (proto = "load_monitor" /\ todo = <<>>) =>
           /\ Len(files) = 3
           /\ Ops(trace) = LoadMonitorOps
           /\ CARD._mode = RESET
           /\ ~CARD._mem_protect
           /\ ~CARD._ef4_n
           /\ Bit(mcp.gpiob, 4) = 1 /\ Bit(mcp.gpiob, 3) = 0
           /\ Bit(mcp.gpiob, 2) = 1 /\ Bit(mcp.gpiob, 0) = 0

C13_Witness ==
    /\ proto = "load_monitor"
    /\ phase = "loop"
    /\ todo = <<>>
    /\ Len(files) = 3
    /\ Len(files[1]) = 2 /\ files[2] = <<>> /\ Len(files[3]) = 3
    /\ Len(trace) = 35
    /\ CARD._mode = RESET
    /\ CARD._data = ImageByte(3, 3)

\* press_input() is in its hold: ef4_n = True is done and ef4_n = False is
\* not, whether time.sleep has returned or not
InHold ==
    /\ todo # <<>>
    /\ \/ Head(todo).op = "sleep"
       \/ /\ Head(todo) = Step("ef4_n", 0)
          /\ trace # <<>>
          /\ trace[Len(trace)].op = "ef4_n" /\ trace[Len(trace)].arg = 1

\* C16: pulse() writes ef4_n=true and then ef4_n=false, and between the two
\* writes the interrupt line stays asserted: nothing, a key release during
\* the hold included, deasserts it before the hold has elapsed.
C16_PulseHeld ==
    InHold => (CARD._ef4_n /\ Bit(mcp.gpiob, 2) = 0)

C8_Toggle ==
    /\ (phase = "ready" /\ phase' = "loop") => mode' = "CONTROL"
    /\ phase = "loop" =>
           IF GetChStep /\ call'.arg = 0
           THEN /\ mode' # mode
                /\ mode' \in {"CONTROL", "KEYBOARD"}
           ELSE mode' = mode

\* C8: InteractionMode is CONTROL when the control loop starts, flips
\* between CONTROL and KEYBOARD at each character with code 0 that is read,
\* and is left as it is by every other character read, by every step of a
\* protocol and by every release of a key.
C8_InteractionMode == [][C8_Toggle]_vars

C8_Witness ==
    /\ phase = "loop"
    /\ mode = "KEYBOARD"
    /\ call.op = "getch" /\ call.arg = Ord.x
    /\ held = {}

C17_Frame ==
    (GetChStep /\ mode = "KEYBOARD") =>
        /\ CARD'._mode = CARD._mode
        /\ CARD'._mem_protect = CARD._mem_protect
        /\ CARD'._ef4_n = CARD._ef4_n
        /\ \A n \in {0, 2, 3, 4} : Bit(mcp'.gpiob, n) = Bit(mcp.gpiob, n)
        /\ proto' = "none"
        /\ todo' = <<>>

\* C17: the key dispatcher acts only in CONTROL mode: while the interaction
\* mode is KEYBOARD no symbol read (l, r, g, w, p, z, m, i and the hex
\* digits included) changes the machine mode or mem_protect, asserts the
\* interrupt line, or starts load_monitor or run_monitor.
C17_KeyboardNoDispatch ==
    /\ [][C17_Frame]_vars
    /\ [](mode = "KEYBOARD" => (todo = <<>> /\ proto = "none"))

C17_Witness ==
    /\ phase = "loop"
    /\ mode = "KEYBOARD"
    /\ call.op = "getch" /\ call.arg = Ord.z
    /\ CARD._data = Ord.z
    /\ CARD._stb_n
    /\ CARD._mode = RESET
    /\ todo = <<>>

\* the quit symbol as getch() returns it, before case folding
Quit == {Ord.q, Ord.q - 32}

C18_Quit ==
    /\ (GetChStep /\ call'.arg \in Quit) =>
           /\ done' /\ phase' = "exit"
           /\ mcp' = mcp /\ CARD' = CARD
           /\ todo' = <<>> /\ proto' = "none"
           /\ mode' = mode
    /\ (~done /\ done') => (GetChStep /\ call'.arg \in Quit)
    /\ (phase = "loop" /\ phase' # "loop" /\ exc' = "none") => done'
    /\ done => UNCHANGED vars

\* C18: the control loop terminates exactly when q is read, in upper or
\* lower case and in either interaction mode; reading q writes no register
\* and is not dispatched to the key handler, and once the loop has
\* terminated no further symbol is processed.
C18_QuitTerminates ==
    /\ [][C18_Quit]_vars
    /\ [](done => (phase = "exit" /\ call.op = "getch" /\ call.arg \in Quit))

C18_Witness ==
    /\ done
    /\ phase = "exit"
    /\ exc = "none"
    /\ call.arg = Ord.q - 32
    /\ mode = "KEYBOARD"
    /\ CARD._stb_n
    /\ CARD._data = Ord.x

\* C19: data is an 8-bit unsigned value in every reachable state: after
\* construction and any sequence of symbols in either interaction mode (hex
\* keys, KEYBOARD-mode characters of any code, the bootstrap protocols) data
\* is in 0..255 and is the byte port A holds.
C19_DataIsByte ==
    phase # "new" =>
        /\ CARD._data \in 0 .. 255
        /\ mcp.gpioa = CARD._data

C9_Strobe ==
    (GetChStep /\ mode = "KEYBOARD"
       /\ Lower(call'.arg) \notin {0, Ord.q}) =>
        /\ \E code \in 0 .. 255 :
               code = Lower(call'.arg) /\ CARD'._data = code
        /\ CARD'._stb_n

\* C9: in KEYBOARD mode every symbol received sets data to the symbol's
\* 8-bit character code and asserts the strobe.
C9_KeyboardSymbol == [][C9_Strobe]_vars

C10_Deassert == ReleaseStep => (~CARD'._ef4_n /\ ~CARD'._stb_n)

\* C10: when a key whose symbol asserted a line goes up (i, newline or
\* space; any symbol in KEYBOARD mode), on_release runs and both ef4_n and
\* stb_n are deasserted, in either InteractionMode.
C10_ReleaseDeasserts == [][C10_Deassert]_vars

----------------------------------------------------------------------------
(* Claims about a release during a setter (SpecRace).                       *)

\* the fields in memory are the decoding of port B
MirrorsPortB ==
    /\ CARD._mode.value = 16 * Bit(mcp.gpiob, 4) + 8 * Bit(mcp.gpiob, 3)
    /\ CARD._mem_protect = (Bit(mcp.gpiob, 0) = 1)
    /\ CARD._ef4_n = (Bit(mcp.gpiob, 2) = 0)
    /\ CARD._stb_n = (Bit(mcp.gpiob, 1) = 0)

\* the main loop's key action and on_release have both run to their end
RaceOver == rmw.main.pc = "done" /\ rmw.hook.pc = "done"

\* the last setter of port B the main loop called, "none" if it called none
MainSetter == IF rmw.main.cur.op = "data" THEN "none" ELSE rmw.main.cur.op

\* port B shows what the main loop's setter wrote and what on_release wrote
\* (the two lines deasserted, but for one the main loop asserted)
BothUpdates ==
    /\ MainSetter = "mode" =>
           16 * Bit(mcp.gpiob, 4) + 8 * Bit(mcp.gpiob, 3) = rmw.main.cur.arg
    /\ MainSetter = "mem_protect" => Bit(mcp.gpiob, 0) = rmw.main.cur.arg
    /\ MainSetter # "ef4_n" => Bit(mcp.gpiob, 2) = 1
    /\ MainSetter # "stb_n" => Bit(mcp.gpiob, 1) = 1

\* C11: on_release is safe to run while a setter of the main loop is in
\* progress: for every interleaving of the reads and writes of port B of the
\* two, once both have finished port B reflects both updates and every field
\* in memory is the value decoded from port B.
C11_ReleaseSafe == RaceOver => (BothUpdates /\ MirrorsPortB)

----------------------------------------------------------------------------
(* Claims about the store (SpecStore).  call.pre is the pair <<mcp, CARD>>  *)
(* as it was when the last call was made.                                   *)

PreMcp == call.pre[1]
PreCard == call.pre[2]

\* the ports a call wrote to, from its trace
WrittenPorts == {trace[i].port : i \in 1 .. Len(trace)}

\* C1: after the mode setter is called with a member X of Mode, the mode
\* getter returns X, and mem_protect, ef4_n and stb_n are what they were
\* before the call, in memory and in bits 0, 2 and 1 of port B.
C1_SetModeFrame ==
    (call.op = "mode" /\ call.arg \in Modes) =>
        /\ CARD._mode = call.arg
        /\ CARD._mem_protect = PreCard._mem_protect
        /\ CARD._ef4_n = PreCard._ef4_n
        /\ CARD._stb_n = PreCard._stb_n
        /\ \A n \in {0, 1, 2} : Bit(mcp.gpiob, n) = Bit(PreMcp.gpiob, n)

C1_Witness ==
    /\ call.op = "mode"
    /\ call.arg = PAUSE
    /\ PreCard._mode = RUN
    /\ PreCard._stb_n /\ PreCard._mem_protect /\ ~PreCard._ef4_n
    /\ CARD._mode = PAUSE

\* the bit of port B that belongs to a boolean field
OwnBit(op) ==
    CASE op = "mem_protect" -> 0
      [] op = "ef4_n" -> 2
      [] op = "stb_n" -> 1

\* C2: each of the setters mem_protect, ef4_n and stb_n leaves every bit of
\* port B but its own (bit 0, bit 2, bit 1) as it was, for every prior byte
\* and argument, and leaves the mode and the other two booleans as they were.
C2_BoolSetterFrame ==
    (call.op \in {"mem_protect", "ef4_n", "stb_n"}) =>
        /\ \A n \in (0 .. 7) \ {OwnBit(call.op)} :
               Bit(mcp.gpiob, n) = Bit(PreMcp.gpiob, n)
        /\ CARD._mode = PreCard._mode
        /\ call.op # "mem_protect" => CARD._mem_protect = PreCard._mem_protect
        /\ call.op # "ef4_n" => CARD._ef4_n = PreCard._ef4_n
        /\ call.op # "stb_n" => CARD._stb_n = PreCard._stb_n
        /\ mcp.gpioa = PreMcp.gpioa

C2_Witness ==
    /\ call.op = "ef4_n"
    /\ call.arg = TRUE
    /\ PreMcp.gpiob = 255
    /\ mcp.gpiob = 251

\* the members of Mode with their encodings in bits 4 and 3 of port B
Encoding == {<<LOAD, 0>>, <<PAUSE, 8>>, <<RESET, 16>>, <<RUN, 24>>}

C3_InvalidModeRaises ==
    (call.op = "mode" /\ call.arg \notin Modes) =>
        /\ exc = "InvalidArgument"
        /\ CARD._mode = PreCard._mode
        /\ mcp.gpiob = PreMcp.gpiob

\* C3 amended: a call of the mode setter with a value that is not a member
\* of Mode returns without an error and without a write: the object and
\* both ports are as they were.
C3_InvalidModeIgnored ==
    (call.op = "mode" /\ call.arg \notin Modes) =>
        /\ exc = "none"
        /\ CARD = PreCard
        /\ mcp = PreMcp
        /\ trace = <<>>

C3_Witness ==
    /\ call.op = "mode"
    /\ call.arg = [cls |-> "int", value |-> 16]
    /\ PreCard._mode = LOAD
    /\ CARD._mode = LOAD

\* C4: construction treats each port on its own.  A port whose direction
\* register reads all-output is not written and the getters return the
\* fields decoded from its byte; otherwise the direction register is set to
\* all-output, the defaults are written (data 0; mode RESET, mem_protect,
\* ef4_n and stb_n false) and the getters return the defaults.
C4_AttachOrInitialize ==
    (call.op = "Elf") =>
        /\ IF PreMcp.iodira = 0
           THEN /\ "gpioa" \notin WrittenPorts
                /\ mcp.gpioa = PreMcp.gpioa
                /\ CARD._data = PreMcp.gpioa
           ELSE /\ mcp.iodira = 0
                /\ "gpioa" \in WrittenPorts
                /\ mcp.gpioa = 0
                /\ CARD._data = 0
        /\ IF PreMcp.iodirb = 0
           THEN /\ "gpiob" \notin WrittenPorts
                /\ mcp.gpiob = PreMcp.gpiob
                /\ CARD._mode.value =
                       8 * Bit(PreMcp.gpiob, 3) + 16 * Bit(PreMcp.gpiob, 4)
                /\ CARD._mem_protect = (Bit(PreMcp.gpiob, 0) = 1)
                /\ CARD._ef4_n = (Bit(PreMcp.gpiob, 2) = 0)
                /\ CARD._stb_n = (Bit(PreMcp.gpiob, 1) = 0)
           ELSE /\ mcp.iodirb = 0
                /\ "gpiob" \in WrittenPorts
                /\ CARD._mode = RESET
                /\ ~CARD._mem_protect /\ ~CARD._ef4_n /\ ~CARD._stb_n
                /\ Bit(mcp.gpiob, 4) = 1 /\ Bit(mcp.gpiob, 3) = 0
                /\ Bit(mcp.gpiob, 2) = 1 /\ Bit(mcp.gpiob, 1) = 1
                /\ Bit(mcp.gpiob, 0) = 0

C4_Witness ==
    /\ call.op = "Elf"
    /\ PreMcp.iodira = 0 /\ PreMcp.gpioa = 81
    /\ PreMcp.iodirb = 255 /\ PreMcp.gpiob = 233
    /\ CARD._data = 81
    /\ CARD._mode = RESET

====
